---- MODULE Spec2Model ----
(***************************************************************************)
(* PyRMVtransport: the departure-board client RMVtransport.get_departures,  *)
(* its journey objects (RMVJourney), the result accessor data() and the     *)
(* product filter encoder _product_filter, as state machines.               *)
(*                                                                          *)
(* Four specifications share the module:                                    *)
(*   Spec        get_departures calls on one client instance, overlapping   *)
(*               at the network fetch (the only await of the coroutine);    *)
(*   SpecFilter  _product_filter applied to bounded lists of product names; *)
(*   SpecJourney RMVJourney(journey, now) applied to bounded reference      *)
(*               times, journey times of day and delays;                    *)
(*   SpecData    data() applied to bounded journey lists and max_journeys.  *)
(*                                                                          *)
(* A datetime is a number of minutes since 00:00 of day 0 (every datetime   *)
(* of the program is parsed with %H:%M, so it has no seconds); a time of    *)
(* day is a number of minutes in 0..1439.                                   *)
(***************************************************************************)
EXTENDS Integers, Sequences, FiniteSets, TLC

VARIABLES
    self,        \* the RMVtransport instance: the fields get_departures writes
    pc,          \* per call: "idle", "fetching" (suspended at the await), "done", "failed"
    args,        \* per call: the arguments of get_departures (its parameters)
    xml,         \* per call: the body the fetch returned (the local xml)
    result,      \* per call: the value get_departures returned
    error,       \* per call: the exception get_departures raised
    fetches,     \* per call: how many times session.get was issued
    parses,      \* per call: how many times objectify.fromstring was attempted
    pf_products, \* SpecFilter: the argument of _product_filter
    pf_result,   \* SpecFilter: its return value
    j_node,      \* SpecJourney: the journey node and the reference time now
    j_obj,       \* SpecJourney: the constructed RMVJourney
    d_out        \* SpecData: the value data() returned

vars == <<self, pc, args, xml, result, error, fetches, parses,
          pf_products, pf_result, j_node, j_obj, d_out>>

clientVars == <<self, pc, args, xml, result, error, fetches, parses>>
filterVars == <<pf_products, pf_result>>
journeyVars == <<j_node, j_obj>>

(***************************************************************************)
(* Bounds of the model.                                                     *)
(***************************************************************************)
MaxProducts == 3      \* product lists of SpecFilter have 1..MaxProducts names
MaxJourneysArg == 2   \* max_journeys ranges up to MaxJourneysArg
MaxList == 4          \* journey lists of SpecData have 0..MaxList journeys
MaxMinutes == 2       \* their real_departure ranges over 0..MaxMinutes

(***************************************************************************)
(* Generic helpers.                                                         *)
(***************************************************************************)
NONE == "NONE"        \* an unset value (Python: no value yet / no result)

Range(s) == {s[i] : i \in 1..Len(s)}

RECURSIVE SumSet(_)
SumSet(S) == IF S = {} THEN 0
             ELSE LET x == CHOOSE y \in S : TRUE IN x + SumSet(S \ {x})

RECURSIVE Pow2(_)
Pow2(n) == IF n = 0 THEN 1 ELSE 2 * Pow2(n - 1)

\* s[::-1]
Reverse(s) == [i \in 1..Len(s) |-> s[Len(s) + 1 - i]]

\* s[:n] for n >= 0
Take(s, n) == SubSeq(s, 1, IF n < Len(s) THEN n ELSE Len(s))

SeqsUpTo(S, n) == UNION {[1..k -> S] : k \in 0..n}

(***************************************************************************)
(* rmvtransport.py: PRODUCTS, ALL_PRODUCTS, _product_filter.                *)
(***************************************************************************)
\* "Faehre" stands for the key written with a-umlaut in the source.
ALL_PRODUCTS == <<"ICE", "IC", "EC", "RB", "RE", "S", "U-Bahn", "Tram",
                  "Bus", "Bus2", "Faehre", "Taxi", "Bahn">>

PRODUCTS == [p \in Range(ALL_PRODUCTS) |->
    CASE p = "ICE"    -> 1
      [] p = "IC"     -> 2
      [] p = "EC"     -> 2
      [] p = "RB"     -> 4
      [] p = "RE"     -> 4
      [] p = "S"      -> 8
      [] p = "U-Bahn" -> 16
      [] p = "Tram"   -> 32
      [] p = "Bus"    -> 64
      [] p = "Bus2"   -> 128
      [] p = "Faehre" -> 256
      [] p = "Taxi"   -> 512
      [] p = "Bahn"   -> 1024]

\* format(n, 'b'): the binary digits of n >= 0, most significant first,
\* as a sequence of the characters "0" and "1".
RECURSIVE format_b(_)
format_b(n) == IF n < 2 THEN <<IF n = 1 THEN "1" ELSE "0">>
               ELSE Append(format_b(n \div 2), IF n % 2 = 1 THEN "1" ELSE "0")

\* Mutant: the weights are summed over the list, not over the set of weights.
RECURSIVE SumList(_)
SumList(s) == IF s = <<>> THEN 0 ELSE PRODUCTS[Head(s)] + SumList(Tail(s))

product_filter_listsum(products) == Reverse(format_b(SumList(products)))

_product_filter(products) ==
    LET _filter == SumSet({PRODUCTS[p] : p \in Range(products)})
    IN  Reverse(format_b(_filter))

(***************************************************************************)
(* datetime arithmetic.                                                     *)
(***************************************************************************)
MinutesPerDay == 24 * 60
SecondsPerDay == 24 * 60 * 60

combine(date, time) == date * MinutesPerDay + time
date_of(dt) == dt \div MinutesPerDay      \* datetime.date()
time_of(dt) == dt % MinutesPerDay         \* datetime.time()

\* Mutant: the whole difference in seconds, days and sign included.
timedelta_seconds_total(d) == d * 60

\* timedelta.seconds: the seconds component of a difference of d minutes,
\* in 0..86399, the days component left out.
timedelta_seconds(d) == (d * 60) % SecondsPerDay

\* round(secs / 60): Python rounds a half to the even neighbour.
round_div60(secs) ==
    LET q == secs \div 60
        r == secs % 60
    IN  IF r < 30 THEN q
        ELSE IF r > 30 THEN q + 1
        ELSE IF q % 2 = 0 THEN q ELSE q + 1

(***************************************************************************)
(* rmvtransport.py: class RMVJourney.                                       *)
(* A journey node is [trainId, category, attrType, variant, time, delay]:   *)
(* category is the text of the CATEGORY attribute, attrType whether that    *)
(* attribute type is listed, variant the type of its variant ("NORMAL" or   *)
(* another), time the Dep.Time of the main stop, delay <<>> (no Delay       *)
(* element) or <<minutes>>.                                                 *)
(***************************************************************************)
_delay(journey) == IF journey.delay = <<>> THEN 0 ELSE journey.delay[1]

\* Mutant: the comparison is >= (so a time equal to now - 1h stays today).
departure_ge(journey, now) ==
    IF journey.time >= time_of(now - 60)
    THEN combine(date_of(now), journey.time)
    ELSE combine(date_of(now) + 1, journey.time)

_departure(journey, now) ==
    LET departure_time == journey.time
    IN  IF departure_time > time_of(now - 60)
        THEN combine(date_of(now), departure_time)
        ELSE combine(date_of(now) + 1, departure_time)

_real_departure_time(journey, now) == _departure(journey, now) + _delay(journey)

_real_departure(journey, now) ==
    round_div60(timedelta_seconds(_real_departure_time(journey, now) - now))

\* _extract(attribute): list.index raises ValueError when the attribute type
\* is not listed or has no variant of type NORMAL.
_extract_raises(journey) == ~journey.attrType \/ journey.variant # "NORMAL"

\* _icon: PRODUCTS[self.product] raises KeyError for a product not in the table.
_icon_raises(journey) == journey.category \notin DOMAIN PRODUCTS

_icon(journey) == PRODUCTS[journey.category]

\* RMVJourney.__init__: the exception it raises ("none" when it returns).
RMVJourney_exc(journey) ==
    IF _extract_raises(journey) THEN "ValueError"
    ELSE IF _icon_raises(journey) THEN "KeyError"
    ELSE "none"

\* RMVJourney.__init__: the object it builds.
RMVJourney(journey, now) ==
    [train_id            |-> journey.trainId,
     product             |-> journey.category,
     departure           |-> _departure(journey, now),
     delay               |-> _delay(journey),
     real_departure_time |-> _real_departure_time(journey, now),
     real_departure      |-> _real_departure(journey, now),
     icon                |-> _icon(journey)]

(***************************************************************************)
(* rmvtransport.py: RMVtransport.data and the sort it uses.                 *)
(***************************************************************************)
\* Mutant: a journey is inserted before the journeys of equal key (not stable).
insort_unstable(s, j) ==
    LET n == Cardinality({i \in 1..Len(s) : s[i].real_departure < j.real_departure})
    IN  SubSeq(s, 1, n) \o <<j>> \o SubSeq(s, n + 1, Len(s))

\* Insert j into the sorted s after every journey whose key is <= j's.
insort(s, j) ==
    LET n == Cardinality({i \in 1..Len(s) : s[i].real_departure <= j.real_departure})
    IN  SubSeq(s, 1, n) \o <<j>> \o SubSeq(s, n + 1, Len(s))

\* sorted(journeys, key=lambda k: k.real_departure): Python's sort is stable.
RECURSIVE sorted(_)
sorted(journeys) ==
    IF journeys = <<>> THEN <<>>
    ELSE insort(sorted(SubSeq(journeys, 1, Len(journeys) - 1)),
                journeys[Len(journeys)])

as_dict(j) ==
    [product        |-> j.product,
     trainId        |-> j.train_id,
     departure_time |-> j.real_departure_time,
     minutes        |-> j.real_departure,
     delay          |-> j.delay,
     icon           |-> j.icon]

\* sorted(self.journeys, key=...)[:self.max_journeys], each journey as a dict.
build_journey_list(journeys, max_journeys) ==
    LET js == Take(sorted(journeys), max_journeys)
    IN  [i \in 1..Len(js) |-> as_dict(js[i])]

data(s) ==
    [station   |-> s.station,
     stationId |-> s.station_id,
     filter    |-> s.products_filter,
     journeys  |-> build_journey_list(s.journeys, s.max_journeys)]

(***************************************************************************)
(* Response bodies.  A body is its lines and the document the lines encode  *)
(* when every line is well-formed XML.  lxml's objectify.fromstring raises  *)
(* XMLSyntaxError on an empty body and on a body with a malformed line.     *)
(* The document holds what get_departures reads of the tree:                *)
(*   StartT       SBRes.SBReq.StartT: present or not, its date and time     *)
(*                attributes each "ok", "None" (no such attribute) or       *)
(*                "malformed" (not %Y%m%d / not %H:%M);                     *)
(*   Station      SBRes.SBReq.Start.Station.HafasName.Text, or ABSENT;      *)
(*   JourneyList  SBRes.JourneyList: present or not, and its Journey nodes; *)
(*   Err          the text of SBRes.Err, or ABSENT.                         *)
(***************************************************************************)
ABSENT == "ABSENT"
OkLine == "<ok/>"                    \* any well-formed line
KnownIssueLine == "<Arr getIn=false>"
UnknownIssueLine == "<Dep <"         \* a malformed line no table lists
TextLine == "error"                  \* text that is not XML

Node(id, cat, time, delay) ==
    [trainId |-> id, category |-> cat, attrType |-> TRUE, variant |-> "NORMAL",
     time |-> time, delay |-> delay]

StartT(day, minute) ==
    [present |-> TRUE, date |-> "ok", day |-> day, time |-> "ok", minute |-> minute]

Doc(startT, station, present, journeys, err) ==
    [StartT |-> startT, Station |-> station,
     JourneyList |-> [present |-> present, Journey |-> journeys], Err |-> err]

\* fixtures/request.xml in small: 10:00, three journeys, two of them due in
\* the same minute, the upstream order not the order of departure.
RequestJourneys ==
    <<Node(1, "S", 10 * 60 + 15, <<>>),
      Node(2, "Bus", 10 * 60 + 5, <<5>>),
      Node(3, "Tram", 10 * 60 + 10, <<0>>)>>

RequestDoc == Doc(StartT(1, 10 * 60), "Frankfurt (Main) Hauptbahnhof",
                  TRUE, RequestJourneys, ABSENT)

\* fixtures/request_midnight.xml in small: 23:50, a journey after midnight.
MidnightJourneys ==
    <<Node(11, "Bus", 10, <<>>),
      Node(12, "S", 23 * 60 + 55, <<>>)>>

MidnightDoc == Doc(StartT(1, 23 * 60 + 50), "Wiesbaden Hauptbahnhof",
                   TRUE, MidnightJourneys, ABSENT)

BodyNames ==
    {"request", "midnight", "bad_request", "unknown_issue", "empty", "error",
     "no_timestamp", "no_date", "bad_date", "bad_time", "no_station",
     "no_journeys", "no_journeys_no_err", "no_normal", "bad_product"}

Body(name) ==
    CASE name = "request" ->
           [lines |-> <<OkLine, OkLine>>, doc |-> RequestDoc]
      [] name = "midnight" ->
           [lines |-> <<OkLine, OkLine>>, doc |-> MidnightDoc]
      [] name = "bad_request" ->      \* fixtures/bad_request.xml
           [lines |-> <<OkLine, KnownIssueLine, OkLine>>, doc |-> RequestDoc]
      [] name = "unknown_issue" ->
           [lines |-> <<OkLine, UnknownIssueLine>>, doc |-> RequestDoc]
      [] name = "empty" ->            \* test_no_xml
           [lines |-> <<>>, doc |-> RequestDoc]
      [] name = "error" ->            \* test_departures_error_server
           [lines |-> <<TextLine>>, doc |-> RequestDoc]
      [] name = "no_timestamp" ->     \* fixtures/request_no_timestamp.xml
           [lines |-> <<OkLine>>,
            doc |-> [RequestDoc EXCEPT !.StartT.present = FALSE]]
      [] name = "no_date" ->
           [lines |-> <<OkLine>>,
            doc |-> [RequestDoc EXCEPT !.StartT.date = "None"]]
      [] name = "bad_date" ->
           [lines |-> <<OkLine>>,
            doc |-> [RequestDoc EXCEPT !.StartT.date = "malformed"]]
      [] name = "bad_time" ->
           [lines |-> <<OkLine>>,
            doc |-> [RequestDoc EXCEPT !.StartT.time = "malformed"]]
      [] name = "no_station" ->
           [lines |-> <<OkLine>>,
            doc |-> [RequestDoc EXCEPT !.Station = ABSENT]]
      [] name = "no_journeys" ->      \* fixtures/request_no_journeys.xml
           [lines |-> <<OkLine>>,
            doc |-> Doc(StartT(1, 10 * 60), "Frankfurt (Main) Hauptbahnhof",
                        FALSE, <<>>, "H730")]
      [] name = "no_journeys_no_err" ->
           [lines |-> <<OkLine>>,
            doc |-> Doc(StartT(1, 10 * 60), "Frankfurt (Main) Hauptbahnhof",
                        FALSE, <<>>, ABSENT)]
      [] name = "no_normal" ->        \* fixtures/request_bad_product.xml
           [lines |-> <<OkLine>>,
            doc |-> [RequestDoc EXCEPT
                       !.JourneyList.Journey[2].variant = "OTHER"]]
      [] name = "bad_product" ->
           [lines |-> <<OkLine>>,
            doc |-> [RequestDoc EXCEPT
                       !.JourneyList.Journey[2].category = "XYZ"]]

\* objectify.fromstring(xml) raises XMLSyntaxError.
fromstring_raises(name) ==
    LET lines == Body(name).lines
    IN  lines = <<>> \/ \E i \in 1..Len(lines) : lines[i] # OkLine

\* RMVtransport.current_time: the exception it lets out ("none" when it
\* returns).  A missing StartT is an AttributeError, which it turns into
\* RMVtransportError; strptime(None, ...) is a TypeError and strptime of a
\* string of another format a ValueError, which it does not catch.
current_time_exc(doc) ==
    IF ~doc.StartT.present THEN "RMVtransportError"
    ELSE IF doc.StartT.date = "None" THEN "TypeError"
    ELSE IF doc.StartT.date = "malformed" THEN "ValueError"
    ELSE IF doc.StartT.time = "None" THEN "TypeError"
    ELSE IF doc.StartT.time = "malformed" THEN "ValueError"
    ELSE "none"

current_time(doc) == combine(doc.StartT.day, doc.StartT.minute)

\* RMVtransport._station: AttributeError when the element is missing.
_station_raises(doc) == doc.Station = ABSENT

_station(doc) == doc.Station

(***************************************************************************)
(* rmvtransport.py: class RMVtransport.                                     *)
(***************************************************************************)
Calls == {"c1", "c2"}

\* The fields of a new instance (RMVtransport.__init__): now, station,
\* station_id, products_filter, max_journeys and obj are only annotated, so
\* they have no value yet (NONE, -1 for the numbers, <<>> for the filter).
InitSelf ==
    [station_id      |-> NONE,
     direction_id    |-> "None",
     max_journeys    |-> -1,
     products_filter |-> <<>>,
     obj             |-> NONE,
     now             |-> -1,
     station         |-> NONE,
     journeys        |-> <<>>]

NoArgs == [station_id |-> NONE, direction_id |-> "None",
           max_journeys |-> -1, products |-> <<>>]

NoData == [station |-> NONE, stationId |-> NONE, filter |-> <<>>,
           journeys |-> <<>>]

\* The arguments a caller passes.  "OMITTED": the call names no station_id;
\* "None" and "" are the values None and the empty string.
StationIdArgs == {"OMITTED", "None", "", "3006904", "3006907"}
DirectionIdArgs == {"None"}
ProductsArgs == {<<>>, <<"S", "RB">>}     \* <<>>: products=None, the default

\* The loop of get_departures over JourneyList.Journey: the journeys
\* appended to self.journeys and the exception that ended the loop.
RECURSIVE extract_journeys(_, _, _)
extract_journeys(nodes, now, acc) ==
    IF nodes = <<>> THEN [journeys |-> acc, exc |-> "none"]
    ELSE IF RMVJourney_exc(Head(nodes)) # "none"
         THEN [journeys |-> acc, exc |-> RMVJourney_exc(Head(nodes))]
    ELSE extract_journeys(Tail(nodes), now,
                          Append(acc, RMVJourney(Head(nodes), now)))

Raised(s, exc) == [self |-> s, exc |-> exc, ret |-> NoData]

\* Mutant: the journeys of the call before stay in the list.
journeys_noclear(s) == s

\* self.journeys.clear(), before the loop appends this response's journeys.
journeys_clear(s) == [s EXCEPT !.journeys = <<>>]

\* get_departures from the return of the fetch to its end (it awaits nothing
\* in between): the instance it leaves, the exception it raises and the
\* value it returns.
after_fetch(s, name) ==
    IF fromstring_raises(name) THEN Raised(s, "RMVtransportError")
    ELSE
    LET doc == Body(name).doc
        s1  == [s EXCEPT !.obj = name]
    IN  IF current_time_exc(doc) = "ValueError" THEN Raised(s1, "ValueError")
        ELSE IF current_time_exc(doc) # "none"
             THEN Raised(s1, "RMVtransportError")
        ELSE
        LET s2 == [s1 EXCEPT !.now = current_time(doc)]
        IN  IF _station_raises(doc) THEN Raised(s2, "RMVtransportError")
            ELSE
            LET s3 == journeys_clear([s2 EXCEPT !.station = _station(doc)])
            IN  IF ~doc.JourneyList.present \/ doc.JourneyList.Journey = <<>>
                THEN \* AttributeError; the handler reads SBRes.Err.get('text')
                     IF doc.Err = ABSENT THEN Raised(s3, "AttributeError")
                     ELSE Raised(s3, "RMVtransportError")
                ELSE
                LET ex == extract_journeys(doc.JourneyList.Journey, s3.now,
                                           s3.journeys)
                    s4 == [s3 EXCEPT !.journeys = ex.journeys]
                IN  IF ex.exc # "none" THEN Raised(s4, ex.exc)
                    ELSE [self |-> s4, exc |-> "none", ret |-> data(s4)]

\* get_departures() without station_id: Python raises TypeError when it
\* binds the arguments, before the body runs.
CallOmitted(c) ==
    /\ pc[c] = "idle"
    /\ pc' = [pc EXCEPT ![c] = "failed"]
    /\ args' = [args EXCEPT ![c] = [NoArgs EXCEPT !.station_id = "OMITTED"]]
    /\ error' = [error EXCEPT ![c] = "TypeError"]
    /\ UNCHANGED <<self, xml, result, fetches, parses>>

\* get_departures up to the await of session.get: it stores its arguments in
\* the instance, builds the URL and issues the request.
Call(c) ==
    /\ pc[c] = "idle"
    /\ \E station_id \in StationIdArgs \ {"OMITTED"},
          direction_id \in DirectionIdArgs,
          max_journeys \in 1..MaxJourneysArg,
          products \in ProductsArgs :
          /\ args' = [args EXCEPT ![c] =
                        [station_id |-> station_id, direction_id |-> direction_id,
                         max_journeys |-> max_journeys, products |-> products]]
          /\ self' = [self EXCEPT
                        !.station_id = station_id,
                        !.direction_id = direction_id,
                        !.max_journeys = max_journeys,
                        !.products_filter =
                            _product_filter(IF products = <<>> THEN ALL_PRODUCTS
                                            ELSE products)]
    /\ pc' = [pc EXCEPT ![c] = "fetching"]
    /\ fetches' = [fetches EXCEPT ![c] = @ + 1]
    /\ UNCHANGED <<xml, result, error, parses>>

\* Mutant: a failed fetch is tried once more before the call gives up.
FetchFail_retry(c) ==
    /\ pc[c] = "fetching"
    /\ IF fetches[c] < 2
       THEN /\ fetches' = [fetches EXCEPT ![c] = @ + 1]
            /\ UNCHANGED <<pc, error>>
       ELSE /\ pc' = [pc EXCEPT ![c] = "failed"]
            /\ error' = [error EXCEPT ![c] = "RMVtransportApiConnectionError"]
            /\ UNCHANGED fetches
    /\ UNCHANGED <<self, args, xml, result, parses>>

\* The fetch times out or fails (asyncio.TimeoutError, aiohttp.ClientError).
FetchFail(c) ==
    /\ pc[c] = "fetching"
    /\ pc' = [pc EXCEPT ![c] = "failed"]
    /\ error' = [error EXCEPT ![c] = "RMVtransportApiConnectionError"]
    /\ UNCHANGED <<self, args, xml, result, fetches, parses>>

\* The fetch returns a body; the call runs to its end.
FetchOk(c) ==
    /\ pc[c] = "fetching"
    /\ \E name \in BodyNames :
          LET out == after_fetch(self, name)
          IN  /\ xml' = [xml EXCEPT ![c] = name]
              /\ self' = out.self
              /\ parses' = [parses EXCEPT ![c] = @ + 1]
              /\ IF out.exc = "none"
                 THEN /\ pc' = [pc EXCEPT ![c] = "done"]
                      /\ result' = [result EXCEPT ![c] = out.ret]
                      /\ error' = error
                 ELSE /\ pc' = [pc EXCEPT ![c] = "failed"]
                      /\ error' = [error EXCEPT ![c] = out.exc]
                      /\ result' = result
    /\ UNCHANGED <<args, fetches>>

InitClient ==
    /\ self = InitSelf
    /\ pc = [c \in Calls |-> "idle"]
    /\ args = [c \in Calls |-> NoArgs]
    /\ xml = [c \in Calls |-> NONE]
    /\ result = [c \in Calls |-> NoData]
    /\ error = [c \in Calls |-> "none"]
    /\ fetches = [c \in Calls |-> 0]
    /\ parses = [c \in Calls |-> 0]

InitFilter == pf_products = <<>> /\ pf_result = <<>>

NoNode == [now |-> 0, journey |-> Node(0, "S", 0, <<>>)]

InitJourney == j_node = NoNode /\ j_obj = <<>>

Init == InitClient /\ InitFilter /\ InitJourney /\ d_out = <<>>

Next ==
    \E c \in Calls :
        \/ CallOmitted(c) /\ UNCHANGED <<filterVars, journeyVars, d_out>>
        \/ Call(c) /\ UNCHANGED <<filterVars, journeyVars, d_out>>
        \/ FetchFail(c) /\ UNCHANGED <<filterVars, journeyVars, d_out>>
        \/ FetchOk(c) /\ UNCHANGED <<filterVars, journeyVars, d_out>>

Spec == Init /\ [][Next]_vars

(***************************************************************************)
(* SpecSeq: the calls on one instance follow one another, each awaited to   *)
(* its end before the next begins (no two calls overlap at the fetch).      *)
(***************************************************************************)
SeqCallOmitted(c) ==
    /\ \A o \in Calls : pc[o] # "fetching"
    /\ CallOmitted(c)

SeqCall(c) ==
    /\ \A o \in Calls : pc[o] # "fetching"
    /\ Call(c)

NextSeq ==
    \E c \in Calls :
        \/ SeqCallOmitted(c) /\ UNCHANGED <<filterVars, journeyVars, d_out>>
        \/ SeqCall(c) /\ UNCHANGED <<filterVars, journeyVars, d_out>>
        \/ FetchFail(c) /\ UNCHANGED <<filterVars, journeyVars, d_out>>
        \/ FetchOk(c) /\ UNCHANGED <<filterVars, journeyVars, d_out>>

SpecSeq == Init /\ [][NextSeq]_vars

(***************************************************************************)
(* SpecFilter: _product_filter on every list of 1..MaxProducts product      *)
(* names and on ALL_PRODUCTS (the default of get_departures).               *)
(***************************************************************************)
FilterInputs ==
    (SeqsUpTo(Range(ALL_PRODUCTS), MaxProducts) \ {<<>>}) \cup {ALL_PRODUCTS}

InitFilterInputs ==
    /\ InitClient /\ InitJourney /\ d_out = <<>>
    /\ pf_products \in FilterInputs
    /\ pf_result = <<>>

ApplyFilter ==
    /\ pf_result = <<>>
    /\ pf_result' = <<_product_filter(pf_products)>>
    /\ UNCHANGED <<clientVars, pf_products, journeyVars, d_out>>

SpecFilter == InitFilterInputs /\ [][ApplyFilter]_vars

(***************************************************************************)
(* SpecJourney: RMVJourney(journey, now) for reference times around         *)
(* midnight, around 01:00 and in the day, every journey time of day, and    *)
(* delays absent, positive, negative and longer than a day.                 *)
(***************************************************************************)
NowTimes == {0, 5, 59, 60, 61, 10 * 60, 23 * 60, 23 * 60 + 50, 23 * 60 + 59}
DelayArgs == {<<>>, <<5>>, <<-90>>, <<1500>>}

InitJourneyInputs ==
    /\ InitClient /\ InitFilter /\ d_out = <<>>
    /\ j_node \in {[now |-> combine(1, m), journey |-> Node(1, "S", t, d)] :
                     m \in NowTimes, t \in 0..(MinutesPerDay - 1), d \in DelayArgs}
    /\ j_obj = <<>>

Construct ==
    /\ j_obj = <<>>
    /\ j_obj' = <<RMVJourney(j_node.journey, j_node.now)>>
    /\ UNCHANGED <<clientVars, filterVars, j_node, d_out>>

SpecJourney == InitJourneyInputs /\ [][Construct]_vars

(***************************************************************************)
(* SpecData: data() on an instance whose journeys are any list of           *)
(* 0..MaxList journeys due in 0..MaxMinutes minutes, numbered in upstream   *)
(* order, and whose max_journeys is any of 0..MaxJourneysArg.               *)
(***************************************************************************)
DataNow == combine(1, 10 * 60)

DataJourney(i, m) ==
    [train_id |-> i, product |-> "S", departure |-> DataNow + m, delay |-> 0,
     real_departure_time |-> DataNow + m, real_departure |-> m, icon |-> 8]

InitDataInputs ==
    /\ pc = [c \in Calls |-> "idle"]
    /\ args = [c \in Calls |-> NoArgs]
    /\ xml = [c \in Calls |-> NONE]
    /\ result = [c \in Calls |-> NoData]
    /\ error = [c \in Calls |-> "none"]
    /\ fetches = [c \in Calls |-> 0]
    /\ parses = [c \in Calls |-> 0]
    /\ InitFilter /\ InitJourney /\ d_out = <<>>
    /\ \E ms \in SeqsUpTo(0..MaxMinutes, MaxList), k \in 0..MaxJourneysArg :
          self = [InitSelf EXCEPT
                    !.station_id = "3006904",
                    !.products_filter = _product_filter(ALL_PRODUCTS),
                    !.obj = "request",
                    !.now = DataNow,
                    !.station = "Frankfurt (Main) Hauptbahnhof",
                    !.max_journeys = k,
                    !.journeys = [i \in 1..Len(ms) |-> DataJourney(i, ms[i])]]

DataCall ==
    /\ d_out = <<>>
    /\ d_out' = <<data(self)>>
    /\ UNCHANGED <<clientVars, filterVars, journeyVars>>

SpecData == InitDataInputs /\ [][DataCall]_vars

(***************************************************************************)
(* Claims.                                                                  *)
(***************************************************************************)

\* The position in self.journeys (the upstream order) of the journey a
\* result entry was made from: SpecData numbers the journeys 1.. in order.
UpstreamPos(entry) == entry.trainId

\* entry a comes before entry b: sooner, or as soon and earlier upstream.
Before(ma, pa, mb, pb) == ma < mb \/ (ma = mb /\ pa < pb)

\* C1: the journeys of data() are in ascending order of minutes until
\* departure, journeys of equal minutes in their upstream order, and they are
\* exactly the first max_journeys journeys of that order (all of them when
\* there are fewer): every journey left out comes after every journey kept.
C1_SortedStableTruncated ==
    d_out # <<>> =>
        LET out == d_out[1].journeys
            js  == self.journeys
            k   == IF self.max_journeys < Len(js) THEN self.max_journeys
                   ELSE Len(js)
            kept == {UpstreamPos(out[i]) : i \in 1..Len(out)}
        IN  /\ Len(out) = k
            /\ kept \subseteq 1..Len(js)
            /\ Cardinality(kept) = Len(out)
            /\ \A i \in 1..Len(out) : out[i] = as_dict(js[UpstreamPos(out[i])])
            /\ \A i, j \in 1..Len(out) :
                  i < j => Before(out[i].minutes, UpstreamPos(out[i]),
                                  out[j].minutes, UpstreamPos(out[j]))
            /\ \A p \in (1..Len(js)) \ kept : \A i \in 1..Len(out) :
                  Before(out[i].minutes, UpstreamPos(out[i]),
                         js[p].real_departure, p)

\* C1 witness: three journeys, the first due last and the other two due in
\* the same minute, max_journeys 2: data() returned the second, then the third.
C1_Witness ==
    /\ d_out # <<>>
    /\ Len(self.journeys) = 3
    /\ self.max_journeys = 2
    /\ self.journeys[1].real_departure > self.journeys[2].real_departure
    /\ self.journeys[2].real_departure = self.journeys[3].real_departure
    /\ Len(d_out[1].journeys) = 2
    /\ d_out[1].journeys[1].trainId = 2
    /\ d_out[1].journeys[2].trainId = 3

\* The value of a filter string read least significant bit first.
RECURSIVE BitsValue(_)
BitsValue(bits) ==
    IF bits = <<>> THEN 0
    ELSE (IF Head(bits) = "1" THEN 1 ELSE 0) + 2 * BitsValue(Tail(bits))

\* The weights a set of product names selects, each once.
WeightsOf(names) == {w \in {Pow2(i) : i \in 0..10} :
                        \E p \in names : PRODUCTS[p] = w}

\* C2: for every non-empty list of product names the encoder returns the
\* binary digits of the sum of the distinct weights of the listed products,
\* least significant bit first and without padding: the character at
\* position i is "1" exactly when the weight 2^(i-1) is selected, the last
\* character is "1", and the bits summed by position give the weight sum.
\* The right-hand sides depend on the set of names only, so the result does
\* not depend on the order or the multiplicity of the names.
C2_ReversedBinaryOfDistinctWeights ==
    pf_result # <<>> =>
        LET out == pf_result[1]
            W   == WeightsOf(Range(pf_products))
        IN  /\ Len(out) >= 1
            /\ \A i \in 1..Len(out) : out[i] \in {"0", "1"}
            /\ \A i \in 1..Len(out) : (out[i] = "1") <=> (Pow2(i - 1) \in W)
            /\ \A w \in W : w < Pow2(Len(out))
            /\ out[Len(out)] = "1"
            /\ BitsValue(out) = SumSet(W)

\* C2 witness: IC and EC (one weight) listed with a repetition and S after
\* them: the filter is "0101", the weights 2 + 8 written backwards.
C2_Witness ==
    /\ pf_products = <<"IC", "EC", "S">>
    /\ pf_result = <<(<<"0", "1", "0", "1">>)>>

\* C3 as stated: the scheduled departure is on the day after now's date when
\* the journey's time of day is earlier than the time of day of now - 1 hour,
\* and on now's date otherwise, equality included.
C3_Original_EqualStaysToday ==
    j_obj # <<>> =>
        LET t == j_node.journey.time
            now == j_node.now
        IN  j_obj[1].departure =
                IF t < time_of(now - 60) THEN combine(date_of(now) + 1, t)
                ELSE combine(date_of(now), t)

\* C3 amended: the scheduled departure has the journey's time of day; it is
\* on the day after now's date when that time is earlier than or equal to
\* the time of day of now - 1 hour, and on now's date when it is later.
C3_EqualOrEarlierIsNextDay ==
    j_obj # <<>> =>
        LET t == j_node.journey.time
            now == j_node.now
            dep == j_obj[1].departure
        IN  /\ time_of(dep) = t
            /\ date_of(dep) \in {date_of(now), date_of(now) + 1}
            /\ (date_of(dep) = date_of(now) + 1) <=> (t <= time_of(now - 60))

\* C3 witness: now 10:00, journey time 09:00 (equal to now - 1 hour): the
\* journey was built and its departure is on the next day.
C3_Witness ==
    /\ j_obj # <<>>
    /\ j_node.now = combine(1, 10 * 60)
    /\ j_node.journey.time = 9 * 60
    /\ j_obj[1].departure = combine(2, 9 * 60)

\* C4: actual departure = scheduled departure + delay (0 when absent) and
\* minutes until departure = (actual departure - now) in minutes, whatever
\* the sign and the size of the difference.
C4_MinutesAreTheDifference ==
    j_obj # <<>> =>
        LET j == j_obj[1]
            d == IF j_node.journey.delay = <<>> THEN 0 ELSE j_node.journey.delay[1]
        IN  /\ j.real_departure_time = j.departure + d
            /\ j.real_departure = j.real_departure_time - j_node.now

\* errors.py: the library's exceptions, all subclasses of RMVtransportError.
ErrorFamily == {"RMVtransportError", "RMVtransportApiConnectionError",
                "RMVtransportDataError"}

\* What a call that ran alone on a fresh instance returns for its own
\* arguments and its own response.
OwnResult(c) ==
    LET doc == Body(xml[c]).doc
        now == current_time(doc)
        own == extract_journeys(doc.JourneyList.Journey, now, <<>>).journeys
    IN  [station   |-> doc.Station,
         stationId |-> args[c].station_id,
         filter    |-> _product_filter(IF args[c].products = <<>>
                                       THEN ALL_PRODUCTS ELSE args[c].products),
         journeys  |-> build_journey_list(own, args[c].max_journeys)]

\* The station ids of StationIdArgs that name a station.
GivenStationIds == StationIdArgs \ {"OMITTED", "None", ""}

\* C5: also when calls on one instance overlap at the fetch, the result of a
\* call is built from its own arguments and its own response alone: its
\* stationId, filter, station, truncation and journeys are its own.  Stated
\* for the calls that were passed a station id (C8 is about the others).
C5_OverlappingCallsIndependent ==
    (\A c \in Calls : args[c].station_id \in GivenStationIds \cup {NONE}) =>
        \A c \in Calls : pc[c] = "done" => result[c] = OwnResult(c)

\* const.py: MAX_RETRIES, KNOWN_XML_ISSUES.
MAX_RETRIES == 5
KNOWN_XML_ISSUES == {KnownIssueLine}

\* The line a syntax error reports: the first line that is not well-formed
\* (the empty first line of an empty body).
OffendingLine(name) ==
    LET lines == Body(name).lines
    IN  IF lines = <<>> THEN ""
        ELSE lines[CHOOSE i \in 1..Len(lines) :
                     /\ lines[i] # OkLine
                     /\ \A k \in 1..(i - 1) : lines[k] = OkLine]

\* The body with every known issue replaced by its fix parses.
RepairedParses(name) ==
    LET lines == Body(name).lines
    IN  /\ lines # <<>>
        /\ \A i \in 1..Len(lines) : lines[i] \in {OkLine} \cup KNOWN_XML_ISSUES

\* C6: when parsing the response raises a syntax error, a body whose
\* offending line is no known issue makes the call fail with DataError; a
\* body whose offending lines are known issues is repaired and parsed again,
\* so the call does not fail on it; at most MAX_RETRIES parses are attempted.
C6_KnownIssuesRepaired ==
    \A c \in Calls :
        (xml[c] # NONE /\ fromstring_raises(xml[c])) =>
            /\ parses[c] <= MAX_RETRIES
            /\ OffendingLine(xml[c]) \notin KNOWN_XML_ISSUES =>
                  (pc[c] = "failed" /\ error[c] = "RMVtransportDataError")
            /\ (OffendingLine(xml[c]) \in KNOWN_XML_ISSUES
                  /\ RepairedParses(xml[c])) =>
                  (parses[c] >= 2 /\ error[c] \notin ErrorFamily)

\* C7: a call whose fetch timed out or failed at the connection level has
\* failed with ApiConnectionError after one fetch; it attempted no parse,
\* holds no response body and returned nothing.
C7_FetchFailureNotRetried ==
    \A c \in Calls :
        /\ error[c] = "RMVtransportApiConnectionError" =>
              /\ pc[c] = "failed"
              /\ fetches[c] = 1
              /\ parses[c] = 0
              /\ xml[c] = NONE
              /\ result[c] = NoData
        /\ fetches[c] <= 1
        /\ (pc[c] = "failed" /\ fetches[c] = 1 /\ xml[c] = NONE) =>
              error[c] = "RMVtransportApiConnectionError"

\* C7 witness: one call failed at the fetch while the other call, started
\* after it, went on to a result.
C7_Witness ==
    /\ error["c1"] = "RMVtransportApiConnectionError"
    /\ fetches["c1"] = 1
    /\ parses["c1"] = 0
    /\ pc["c2"] = "done"

\* C8: a call with a missing station id (omitted, None or empty) fails with
\* an invalid-argument error (Python's TypeError) and issues no fetch.
C8_MissingStationIdRejected ==
    \A c \in Calls :
        args[c].station_id \in {"OMITTED", "None", ""} =>
            /\ fetches[c] = 0
            /\ pc[c] = "failed"
            /\ error[c] = "TypeError"

\* C9: an empty or non-XML response body makes the call fail with DataError.
C9_NonXmlBodyIsDataError ==
    \A c \in Calls :
        xml[c] \in {"empty", "error"} =>
            (pc[c] = "failed" /\ error[c] = "RMVtransportDataError")

\* C10: a response without the reference date/time fields, or with a
\* malformed date or time, makes the call fail with DataError.
C10_BadTimestampIsDataError ==
    \A c \in Calls :
        xml[c] \in {"no_timestamp", "no_date", "bad_date", "bad_time"} =>
            (pc[c] = "failed" /\ error[c] = "RMVtransportDataError")


\* C11: a response that parses and yields a timestamp and a station but has
\* no journey list makes the call fail with the generic RMVtransportError,
\* whether or not the document carries an Err element.
C11_NoJourneyListIsGenericError ==
    \A c \in Calls :
        xml[c] \in {"no_journeys", "no_journeys_no_err"} =>
            (pc[c] = "failed" /\ error[c] = "RMVtransportError")

\* The entries of a call's result made from the journey of a train id.
EntriesOf(c, id) ==
    {i \in 1..Len(result[c].journeys) : result[c].journeys[i].trainId = id}

\* C12: a journey whose product category is no key of the product table is
\* extracted all the same: the call succeeds, its result keeps the category
\* as the product and gives the journey the icon of Bahn (weight 1024).
C12_UnknownProductFallsBackToBahn ==
    \A c \in Calls :
        (xml[c] = "bad_product" /\ args[c].max_journeys >= 2) =>
            /\ pc[c] = "done"
            /\ \E i \in EntriesOf(c, 2) :
                  /\ result[c].journeys[i].product = "XYZ"
                  /\ result[c].journeys[i].icon = PRODUCTS["Bahn"]


\* C14: when the calls on one instance follow one another, the result of a
\* successful call is the one a fresh instance would return for the call's
\* own arguments and response: its journeys, station, stationId and filter
\* are its own, whatever the calls before it (successful or failed) left
\* in the instance.
C14_ResultIsFreshPerCall ==
    \A c \in Calls : pc[c] = "done" => result[c] = OwnResult(c)

\* A call that failed in the middle of its journeys (one journey was already
\* in the list) is followed by a successful call with another response.
C14_Witness ==
    /\ pc["c1"] = "failed" /\ xml["c1"] = "no_normal"
    /\ error["c1"] = "ValueError"
    /\ pc["c2"] = "done" /\ xml["c2"] = "midnight"
    /\ self.obj = "midnight"
    /\ Len(result["c2"].journeys) = 2
    /\ result["c2"] = OwnResult("c2")


\* C13: a failed call returns no record, and once a call has failed, the
\* record data() hands out shows no journey unless it is the result of a
\* call that succeeded: it holds no part of the failed call's journeys, and
\* it does not join the stationId or filter of the failed call to the
\* journeys of an earlier call.  Stated for calls that follow one another.
C13_NoPartialResultFromFailedCall ==
    /\ \A c \in Calls : pc[c] = "failed" => result[c] = NoData
    /\ ((\E c \in Calls : pc[c] = "failed" /\ fetches[c] > 0)
           /\ (\A c \in Calls : pc[c] # "fetching"))
        => \/ data(self).journeys = <<>>
           \/ \E c \in Calls : pc[c] = "done" /\ data(self) = result[c]


\* C15: the scheduled departure is the occurrence of the journey's time of
\* day that lies within the 24 hours that start at now - 1 hour (either end
\* of the window allowed); with now = 00:05 and journey time 23:58 it is on
\* the day before now's date, and with now = 23:50 and journey time 00:10 on
\* the day after.
C15_DepartureWithinLookbackWindow ==
    j_obj # <<>> =>
        LET t == j_node.journey.time
            now == j_node.now
            dep == j_obj[1].departure
        IN  /\ time_of(dep) = t
            /\ now - 60 <= dep /\ dep <= now - 60 + MinutesPerDay
            /\ (time_of(now) = 5 /\ t = 23 * 60 + 58)
                   => date_of(dep) = date_of(now) - 1
            /\ (time_of(now) = 23 * 60 + 50 /\ t = 10)
                   => date_of(dep) = date_of(now) + 1

\* C16: a journey whose CATEGORY attribute is listed but has no variant of
\* type NORMAL is extracted with the empty string as its product, and the
\* call succeeds.
C16_NoNormalVariantIsEmptyString ==
    \A c \in Calls :
        (xml[c] = "no_normal" /\ args[c].max_journeys >= 2) =>
            /\ pc[c] = "done"
            /\ \E i \in EntriesOf(c, 2) : result[c].journeys[i].product = ""

====
